---- MODULE Spec2Model ----
(***************************************************************************)
(* ISS tracker (server.py): a background acquisition loop that polls an    *)
(* upstream position API, stores each sample in the table iss_positions    *)
(* and prunes samples older than the retention window, next to the HTTP    *)
(* handlers that read the table.                                           *)
(***************************************************************************)
EXTENDS Integers, Sequences, FiniteSets, TLC

(* ---------------- bounds of the model ---------------- *)
\* model time units per UTC calendar day
SecPerDay == 2
\* how many units the clock may advance
MaxTicks == 1
\* how many rows may be inserted in one behaviour
MaxInserts == 2
\* largest number of rows the table holds when a page request starts
MaxTotal == 13

(* ---------------- program constants ---------------- *)
MAX_RETENTION_DAYS == 3
PER_PAGE == 1000

Window == MAX_RETENTION_DAYS * SecPerDay
Now0 == Window + SecPerDay
MaxNow == Now0 + MaxTicks
\* ids are assigned by AUTOINCREMENT / SERIAL: the table of a database that
\* already held MaxTotal rows continues after them
FirstId == MaxTotal + 1
MaxId == MaxTotal + MaxInserts

VARIABLES
    USE_POSTGRES,   \* which database adapter the import block selected
    now,            \* the UTC clock (datetime.utcnow / time.time)
    iss_positions,  \* the table: a set of rows
    nextId,         \* the next id the table's sequence assigns
    stop_event,     \* threading.Event: is it set
    loopPc,         \* where background_loop stands
    loopResp,       \* the upstream response the loop's fetch received
    pos,            \* background_loop's local pos
    deleted,        \* cleanup_old_data's local deleted (cur.rowcount)
    timerExpired,   \* stop_event.wait(FETCH_INTERVAL): did the timeout elapse
    httpResp,       \* the response to the latest request (None while it runs)
    arPc,           \* where a running api_all_records request stands
    ar              \* the locals of that request

(* ---------------- values ---------------- *)
None == <<>>
Some(v) == <<v>>

\* a JSON value of the payload: a number, a numeric string, a string that is
\* no number, or a key that is absent
Absent == [t |-> "absent", v |-> 0]
Num(n) == [t |-> "num", v |-> n]
Str(n) == [t |-> "str", v |-> n]
BadStr == [t |-> "bad", v |-> 0]

\* strftime("%Y-%m-%d %H:%M:%S"): the date part and the time-of-day part
Strftime(t) == <<t \div SecPerDay, t % SecPerDay>>
\* comparison of two such strings (fixed width: lexicographic)
StrLess(a, b) == a[1] < b[1] \/ (a[1] = b[1] /\ a[2] < b[2])
\* ts_utc.split(" ")[0]
DayOf(ts_utc) == ts_utc[1]

(* ---------------- fetch_iss_position ---------------- *)
fetch_iss_position(resp, clock) ==
    LET data == resp.data
        tsRaises == data.timestamp.t = "bad"
        tsVal == IF data.timestamp.t = "absent" THEN clock ELSE data.timestamp.v
        nested == data.shape = "nested"
        \* pos["latitude"]: KeyError when absent; float(): ValueError
        nestedRaises == \/ data.latitude.t \in {"absent", "bad"}
                        \/ data.longitude.t \in {"absent", "bad"}
        \* data.get(key, 0): the default when absent; float(): ValueError
        flatRaises == \/ data.latitude.t = "bad"
                      \/ data.longitude.t = "bad"
                      \/ data.altitude.t = "bad"
        Get(jv) == IF jv.t = "absent" THEN 0 ELSE jv.v
    IN  IF resp.kind # "json" \/ resp.status \in 400..599 THEN None
        ELSE IF tsRaises THEN None
        ELSE IF nested
        THEN IF nestedRaises THEN None
             ELSE Some([latitude |-> data.latitude.v,
                        longitude |-> data.longitude.v,
                        altitude |-> None,
                        ts_utc |-> Strftime(tsVal)])
        ELSE IF flatRaises THEN None
             ELSE Some([latitude |-> Get(data.latitude),
                        longitude |-> Get(data.longitude),
                        altitude |-> Some(Get(data.altitude)),
                        ts_utc |-> Strftime(tsVal)])

(* ---------------- what the upstream may answer ---------------- *)
\* ages of the epoch second an upstream payload reports: fresh, exactly one
\* retention window old, one window and one day old
Offsets == {0, Window, Window + SecPerDay}

Data(shape, lat, lon, alt, ts) ==
    [shape |-> shape, latitude |-> lat, longitude |-> lon, altitude |-> alt,
     timestamp |-> ts]

Datas(clock) ==
    {Data("flat", Num(1), Num(2), Num(4), Num(clock - off)) : off \in Offsets}
    \cup {Data("flat", Absent, Num(2), Num(4), Absent),
          Data("flat", Num(1), Absent, Absent, Num(clock)),
          Data("nested", Str(1), Str(2), Absent, Num(clock)),
          Data("nested", Str(1), Absent, Absent, Num(clock)),
          Data("nested", Absent, Str(2), Absent, Num(clock)),
          Data("flat", Num(1), Num(2), Num(4), BadStr)}

Responses(clock) ==
    {[kind |-> "network", status |-> 0, data |-> Data("flat", Absent, Absent, Absent, Absent)],
     [kind |-> "badjson", status |-> 200, data |-> Data("flat", Absent, Absent, Absent, Absent)],
     [kind |-> "json", status |-> 500, data |-> Data("flat", Absent, Absent, Absent, Absent)]}
    \cup {[kind |-> "json", status |-> 200, data |-> d] : d \in Datas(clock)}

(* ---------------- the table ---------------- *)
\* INSERT INTO iss_positions (latitude, longitude, altitude, timestamp, day)
Row(id, lat, lon, alt, ts_utc) ==
    [id |-> id, latitude |-> lat, longitude |-> lon, altitude |-> alt,
     timestamp |-> ts_utc, day |-> DayOf(ts_utc)]

\* a cutoff that leaves the retention window out
CutoffNoWindow(clock) == Strftime(clock)

\* cutoff = (utcnow() - timedelta(days=MAX_RETENTION_DAYS)).strftime(...)
Cutoff(clock) == Strftime(clock - Window)

\* a DELETE whose comparison takes the cutoff itself too
ExpiredOrEqual(row, cutoff) == ~StrLess(cutoff, row.timestamp)

\* DELETE FROM iss_positions WHERE timestamp < cutoff
Expired(row, cutoff) == StrLess(row.timestamp, cutoff)

\* the sequence is capped so that the model is finite: the upstream answers
\* with a sample only while an id is left
CanInsert == nextId <= MaxId

(* ---------------- background_loop ---------------- *)
loopVars == <<loopPc, loopResp, pos, deleted, timerExpired>>
storeVars == <<iss_positions, nextId>>
httpVars == <<httpResp, arPc, ar>>

Running == loopPc \in {"check", "fetching", "save", "cleanup", "wait"}

\* while not stop_event.is_set(): pos = fetch_iss_position() ...
LoopCheck ==
    /\ loopPc = "check"
    /\ loopPc' = IF stop_event THEN "stopped" ELSE "fetching"
    /\ UNCHANGED <<httpVars, USE_POSTGRES, now, storeVars, stop_event, loopResp, pos, deleted,
                   timerExpired>>

\* requests.get returns or raises; the payload is parsed
LoopFetch ==
    /\ loopPc = "fetching"
    /\ \E r \in Responses(now) :
         /\ fetch_iss_position(r, now) # None => CanInsert
         /\ loopResp' = Some(r)
         /\ pos' = fetch_iss_position(r, now)
         /\ loopPc' = IF fetch_iss_position(r, now) # None THEN "save" ELSE "cleanup"
    /\ UNCHANGED <<httpVars, USE_POSTGRES, now, storeVars, stop_event, deleted, timerExpired>>

\* if pos: save_position(...) commits
LoopSave ==
    /\ loopPc = "save"
    /\ iss_positions' = iss_positions \cup
         {Row(nextId, pos[1].latitude, pos[1].longitude, pos[1].altitude, pos[1].ts_utc)}
    /\ nextId' = nextId + 1
    /\ loopPc' = "cleanup"
    /\ UNCHANGED <<httpVars, USE_POSTGRES, now, stop_event, loopResp, pos, deleted, timerExpired>>

\* save_position raises (the database cannot be reached): nothing in
\* background_loop catches it, the thread ends
LoopSaveRaises ==
    /\ loopPc = "save"
    /\ loopPc' = "crashed"
    /\ loopResp' = None
    /\ pos' = None
    /\ UNCHANGED <<httpVars, USE_POSTGRES, now, storeVars, stop_event, deleted, timerExpired>>

\* cleanup_old_data() commits; then stop_event.wait(FETCH_INTERVAL) begins
LoopCleanup ==
    /\ loopPc = "cleanup"
    /\ ~USE_POSTGRES
    /\ iss_positions' = {row \in iss_positions : ~Expired(row, Cutoff(now))}
    /\ deleted' = Cardinality({row \in iss_positions : Expired(row, Cutoff(now))})
    /\ loopPc' = "wait"
    /\ timerExpired' = FALSE
    /\ UNCHANGED <<httpVars, USE_POSTGRES, now, nextId, stop_event, loopResp, pos>>

\* cleanup_old_data raises: always under psycopg2 (the statement's "?" is no
\* psycopg2 placeholder), or when the database cannot be reached
LoopCleanupRaises ==
    /\ loopPc = "cleanup"
    /\ loopPc' = "crashed"
    /\ loopResp' = None
    /\ pos' = None
    /\ UNCHANGED <<httpVars, USE_POSTGRES, now, storeVars, stop_event, deleted, timerExpired>>

\* a time.sleep(timeout): it returns when the timeout elapsed only
WaitDoneSleep(isSet, expired) == expired

\* Event.wait(timeout) returns when the event is set or the timeout elapsed
WaitDone(isSet, expired) == isSet \/ expired

\* the timeout of stop_event.wait elapses
WaitTimeout ==
    /\ loopPc = "wait"
    /\ ~WaitDone(stop_event, timerExpired)
    /\ timerExpired' = TRUE
    /\ UNCHANGED <<httpVars, USE_POSTGRES, now, storeVars, stop_event, loopPc, loopResp, pos, deleted>>

LoopWaitReturn ==
    /\ loopPc = "wait"
    /\ WaitDone(stop_event, timerExpired)
    /\ loopPc' = "check"
    /\ timerExpired' = FALSE
    /\ loopResp' = None
    /\ pos' = None
    /\ deleted' = 0
    /\ UNCHANGED <<httpVars, USE_POSTGRES, now, storeVars, stop_event>>

(* ---------------- the environment ---------------- *)
\* the clock advances
Tick ==
    /\ now < MaxNow
    /\ now' = now + 1
    /\ UNCHANGED <<httpVars, USE_POSTGRES, storeVars, stop_event, loopVars>>

\* stop_event.set()
SetStop ==
    /\ ~stop_event
    /\ stop_event' = TRUE
    /\ UNCHANGED <<httpVars, USE_POSTGRES, now, storeVars, loopVars>>

(* ---------------- queries on the table ---------------- *)
Min(a, b) == IF a < b THEN a ELSE b
Max(a, b) == IF a > b THEN a ELSE b

\* Python's a // b (floor division), b # 0
FloorDiv(a, b) == IF b > 0 THEN a \div b ELSE (0 - a) \div (0 - b)

\* WHERE day = ? (no clause when the filter is empty)
Matching(rows, day_filter) ==
    IF day_filter = None THEN rows ELSE {row \in rows : row.day = day_filter[1]}

\* ORDER BY timestamp ASC; rows of one timestamp come in id order
RECURSIVE OrderAsc(_)
OrderAsc(rows) ==
    IF rows = {} THEN <<>>
    ELSE LET first == CHOOSE r \in rows : \A q \in rows :
                        \/ StrLess(r.timestamp, q.timestamp)
                        \/ (r.timestamp = q.timestamp /\ r.id <= q.id)
         IN  <<first>> \o OrderAsc(rows \ {first})

\* ORDER BY timestamp DESC; rows of one timestamp come in id order
RECURSIVE OrderDesc(_)
OrderDesc(rows) ==
    IF rows = {} THEN <<>>
    ELSE LET first == CHOOSE r \in rows : \A q \in rows :
                        \/ StrLess(q.timestamp, r.timestamp)
                        \/ (r.timestamp = q.timestamp /\ r.id <= q.id)
         IN  <<first>> \o OrderDesc(rows \ {first})

\* SELECT DISTINCT day ... ORDER BY day DESC
RECURSIVE DaysDesc(_)
DaysDesc(days) ==
    IF days = {} THEN <<>>
    ELSE LET top == CHOOSE d \in days : \A e \in days : e <= d
         IN  <<top>> \o DaysDesc(days \ {top})

\* LIMIT ? OFFSET ? of SQLite: a negative limit is no limit, a negative
\* offset is 0
LimitOffset(rows, limit, offset) ==
    LET off == Max(offset, 0)
        last == IF limit < 0 THEN Len(rows) ELSE Min(Len(rows), off + limit)
    IN  SubSeq(rows, off + 1, last)

\* the columns a SELECT names
WithId(row) == row
NoId(row) == [latitude |-> row.latitude, longitude |-> row.longitude,
              altitude |-> row.altitude, ts_utc |-> row.timestamp, day |-> Some(row.day)]
Project(rows, Cols(_)) == [i \in 1..Len(rows) |-> Cols(rows[i])]

Reply(ep, status, body) == Some([ep |-> ep, status |-> status, body |-> body])
\* an exception no handler catches: Flask answers 500
Failure(ep, error) == Reply(ep, 500, [error |-> error])

(* ---------------- GET /api/current ---------------- *)
\* ORDER BY id DESC LIMIT 1
LastById(rows) == {row \in rows : \A q \in rows : q.id <= row.id}

\* _fetch_last_record: ORDER BY timestamp DESC LIMIT 1; which of the rows of
\* the greatest timestamp comes first is not determined
LastRecords(rows) == {row \in rows : \A q \in rows : ~StrLess(row.timestamp, q.timestamp)}

\* an HTTP handler may take an id only if the loop's pending save keeps one
CanInsertHttp == nextId + (IF loopPc = "save" THEN 1 ELSE 0) <= MaxId

\* api_current saves what its own fetch returned
CurrentSaves(p) == p # None

\* an api_current that keeps only the position it fetched
api_current_replacing(r) ==
    LET p == fetch_iss_position(r, now)
    IN  /\ p # None
        /\ CanInsertHttp
        /\ iss_positions' =
              {Row(nextId, p[1].latitude, p[1].longitude, p[1].altitude, p[1].ts_utc)}
        /\ nextId' = nextId + 1
        /\ httpResp' = Reply("current", 200,
              [latitude |-> p[1].latitude, longitude |-> p[1].longitude,
               altitude |-> p[1].altitude, ts_utc |-> p[1].ts_utc, day |-> None])

api_current(r) ==
    LET p == fetch_iss_position(r, now)
    IN  IF CurrentSaves(p)
        THEN /\ CanInsertHttp
             /\ \/ /\ iss_positions' = iss_positions \cup
                         {Row(nextId, p[1].latitude, p[1].longitude, p[1].altitude, p[1].ts_utc)}
                   /\ nextId' = nextId + 1
                   /\ httpResp' = Reply("current", 200,
                         [latitude |-> p[1].latitude, longitude |-> p[1].longitude,
                          altitude |-> p[1].altitude, ts_utc |-> p[1].ts_utc, day |-> None])
                \/ /\ UNCHANGED storeVars
                   /\ httpResp' = Failure("current", "OperationalError")
        ELSE /\ UNCHANGED storeVars
             /\ \/ \E row \in LastRecords(iss_positions) :
                       httpResp' = Reply("current", 200, NoId(row))
                \/ /\ iss_positions = {}
                   /\ httpResp' = Reply("current", 404, [error |-> "No data available"])
                \/ httpResp' = Failure("current", "OperationalError")

ApiCurrent ==
    /\ \E r \in Responses(now) : api_current(r)
    /\ UNCHANGED <<USE_POSTGRES, now, stop_event, loopVars, arPc, ar>>

(* ---------------- GET /api/last3days ---------------- *)
\* WHERE timestamp >= cutoff ORDER BY timestamp ASC; the statement's "%s" is
\* no sqlite3 placeholder
ApiLast3days ==
    /\ \/ httpResp' =
            IF USE_POSTGRES
            THEN Reply("last3days", 200,
                       Project(OrderAsc({row \in iss_positions :
                                           ~StrLess(row.timestamp, Cutoff(now))}), NoId))
            ELSE Failure("last3days", "OperationalError")
       \/ httpResp' = Failure("last3days", "OperationalError")
    /\ UNCHANGED <<USE_POSTGRES, now, storeVars, stop_event, loopVars, arPc, ar>>

(* ---------------- GET /api/stats ---------------- *)
\* cur.fetchone()[0]: a RealDictCursor row has no key 0
ApiStats ==
    /\ \/ httpResp' =
            IF USE_POSTGRES
            THEN Failure("stats", "KeyError")
            ELSE Reply("stats", 200,
                       [total_records |-> Cardinality(iss_positions),
                        records_per_day |->
                           [d \in {row.day : row \in iss_positions} |->
                               Cardinality({row \in iss_positions : row.day = d})]])
       \/ httpResp' = Failure("stats", "OperationalError")
    /\ UNCHANGED <<USE_POSTGRES, now, storeVars, stop_event, loopVars, arPc, ar>>

(* ---------------- GET /api/download-csv ---------------- *)
\* one line of the CSV: timestamp, day, latitude, longitude, altitude
CsvLine(row) == <<row.timestamp, row.day, row.latitude, row.longitude, row.altitude>>

\* the day argument: None is 'all' (the default) or ''
DayArgs == {None, Some(Now0 \div SecPerDay), Some(0)}

ApiDownloadCsv ==
    /\ \/ \E day \in DayArgs :
            LET rows == OrderAsc(Matching(iss_positions, day))
            IN  httpResp' =
                  IF rows = <<>>
                  THEN Reply("download-csv", 404,
                             [error |-> "No data found for the selected period"])
                  ELSE Reply("download-csv", 200,
                             [filename |-> day, lines |-> Project(rows, CsvLine)])
       \/ httpResp' = Failure("download-csv", "OperationalError")
    /\ UNCHANGED <<USE_POSTGRES, now, storeVars, stop_event, loopVars, arPc, ar>>

(* ---------------- GET /api/all-records ---------------- *)
\* request.args.get(key, default, type=int)
ArgInt(arg, default) == IF arg.t \in {"absent", "bad"} THEN default ELSE arg.v

ArIdle == [args |-> [page |-> Absent, per_page |-> Absent, day |-> None],
           page |-> 0, per_page |-> 0, day_filter |-> None,
           available_days |-> <<>>, total_records |-> 0, total_pages |-> 0,
           offset |-> 0]

\* a page count that rounds down
TotalPagesRoundedDown(total, per_page) == FloorDiv(total, per_page)

\* total_pages = (total_records + per_page - 1) // per_page
TotalPages(total, per_page) == FloorDiv(total + per_page - 1, per_page)

\* if page < 1: page = 1
\* if page > total_pages and total_pages > 0: page = total_pages
ClampPage(page, total_pages) ==
    LET p1 == IF page < 1 THEN 1 ELSE page
    IN  IF p1 > total_pages /\ total_pages > 0 THEN total_pages ELSE p1

\* the arguments are read and get_conn() opens the connection
ArStart(pages, perPages, days) ==
    /\ arPc = "idle"
    /\ \/ /\ \E pg \in pages, pp \in perPages, day \in days :
                ar' = [ArIdle EXCEPT !.args = [page |-> pg, per_page |-> pp, day |-> day],
                                     !.page = ArgInt(pg, 1),
                                     !.per_page = ArgInt(pp, PER_PAGE),
                                     !.day_filter = day]
          /\ arPc' = "days"
          /\ httpResp' = None
       \/ /\ httpResp' = Failure("all-records", "OperationalError")
          /\ UNCHANGED <<arPc, ar>>
    /\ UNCHANGED <<USE_POSTGRES, now, storeVars, stop_event, loopVars>>

\* 1. Get available days
ArDays ==
    /\ arPc = "days"
    /\ ar' = [ar EXCEPT !.available_days = DaysDesc({row.day : row \in iss_positions})]
    /\ arPc' = "count"
    /\ UNCHANGED <<USE_POSTGRES, now, storeVars, stop_event, loopVars, httpResp>>

\* 2. total count, 3. Calculate pagination
ArCount ==
    /\ arPc = "count"
    /\ LET total == Cardinality(Matching(iss_positions, ar.day_filter))
           total_pages == TotalPages(total, ar.per_page)
           page == ClampPage(ar.page, total_pages)
       IN  IF USE_POSTGRES
           THEN /\ httpResp' = Failure("all-records", "KeyError")
                /\ arPc' = "idle"
                /\ ar' = ArIdle
           ELSE IF ar.per_page = 0
           THEN /\ httpResp' = Failure("all-records", "ZeroDivisionError")
                /\ arPc' = "idle"
                /\ ar' = ArIdle
           ELSE /\ ar' = [ar EXCEPT !.total_records = total,
                                    !.total_pages = total_pages,
                                    !.page = page,
                                    !.offset = (page - 1) * ar.per_page]
                /\ arPc' = "fetch"
                /\ UNCHANGED httpResp
    /\ UNCHANGED <<USE_POSTGRES, now, storeVars, stop_event, loopVars>>

\* 4. Fetch records for the page, and the response
ArFetch ==
    /\ arPc = "fetch"
    /\ httpResp' = Reply("all-records", 200,
          [args |-> ar.args,
           total |-> ar.total_records,
           page |-> ar.page,
           per_page |-> ar.per_page,
           total_pages |-> ar.total_pages,
           available_days |-> ar.available_days,
           records |-> Project(LimitOffset(OrderDesc(Matching(iss_positions, ar.day_filter)),
                                           ar.per_page, ar.offset), WithId)])
    /\ arPc' = "idle"
    /\ ar' = ArIdle
    /\ UNCHANGED <<USE_POSTGRES, now, storeVars, stop_event, loopVars>>

(* ---------------- specifications ---------------- *)
vars == <<USE_POSTGRES, now, iss_positions, nextId, stop_event, loopPc, loopResp, pos,
          deleted, timerExpired, httpResp, arPc, ar>>

HttpIdle ==
    /\ httpResp = None
    /\ arPc = "idle"
    /\ ar = ArIdle

\* the process has started: the table is empty, the loop is at its first test
Init ==
    /\ USE_POSTGRES \in BOOLEAN
    /\ now = Now0
    /\ iss_positions = {}
    /\ nextId = FirstId
    /\ stop_event = FALSE
    /\ loopPc = "check"
    /\ loopResp = None
    /\ pos = None
    /\ deleted = 0
    /\ timerExpired = FALSE
    /\ HttpIdle

LoopNext ==
    \/ LoopCheck
    \/ LoopFetch
    \/ LoopSave
    \/ LoopSaveRaises
    \/ LoopCleanup
    \/ LoopCleanupRaises
    \/ WaitTimeout
    \/ LoopWaitReturn

\* the acquisition thread, the clock and the stop signal
Next ==
    \/ LoopNext
    \/ Tick
    \/ SetStop

Spec == Init /\ [][Next]_vars

\* the thread is scheduled, requests.get returns (timeout=8), the timeout of
\* Event.wait elapses
FairSpec == Spec /\ WF_vars(LoopNext)

(* ----- the HTTP handlers, and a page request next to one tick of the loop ----- *)
\* rows an earlier run of the process left in the table: the upstream
\* reported them out of order (rows 2k-1 and 2k are swapped in time)
PriorTs(i) == IF i % 2 = 1 THEN i + 1 ELSE i - 1
PriorRows(n) == {Row(i, 1, 2, Some(4), Strftime(PriorTs(i))) : i \in 1..n}
NowHttp == MaxTotal + 1

FreshResp == [kind |-> "json", status |-> 200,
              data |-> Data("flat", Num(1), Num(2), Num(4), Num(NowHttp))]

\* the table holds n rows, the loop has fetched a sample and is about to
\* save it, no request is running
InitHttp(maxRows) ==
    /\ USE_POSTGRES \in BOOLEAN
    /\ now = NowHttp
    /\ \E n \in 0..maxRows : iss_positions = PriorRows(n)
    /\ nextId = FirstId
    /\ stop_event = FALSE
    /\ loopPc = "save"
    /\ loopResp = Some(FreshResp)
    /\ pos = fetch_iss_position(FreshResp, NowHttp)
    /\ deleted = 0
    /\ timerExpired = FALSE
    /\ HttpIdle

LoopTick ==
    \/ LoopSave
    \/ LoopSaveRaises
    \/ LoopCleanup
    \/ LoopCleanupRaises

\* the query arguments of /api/all-records the model draws
PageArgs == {Absent, BadStr, Num(0), Num(1), Num(2), Num(3), Num(5)}
PerPageArgs == {Absent, Num(0 - 1), Num(0), Num(1), Num(2), Num(5), Num(6000)}

InitPage == InitHttp(MaxTotal)

NextPage ==
    \/ ArStart(PageArgs, PerPageArgs, DayArgs)
    \/ ArDays
    \/ ArCount
    \/ ArFetch
    \/ LoopTick

SpecPage == InitPage /\ [][NextPage]_vars

NextHttp ==
    \/ ApiCurrent
    \/ ApiLast3days
    \/ ApiStats
    \/ ApiDownloadCsv
    \/ ArStart({Absent}, {Absent}, {None})
    \/ ArDays
    \/ ArCount
    \/ ArFetch

SpecHttp == InitHttp(MaxInserts) /\ [][NextHttp]_vars

(* ================= the claims ================= *)
\* the epoch second a stored timestamp string stands for
Epoch(ts) == ts[1] * SecPerDay + ts[2]

\* the sample a response body or a row carries
Sample(x) == <<x.latitude, x.longitude, x.altitude>>

(* C1: the acquisition loop is never ended by a single failure: while stop
   has not been signalled, a step of a running loop (a failed fetch, a store
   operation that raises) leaves the loop running. *)
C1_LoopSurvivesFailure == [][(Running /\ ~stop_event) => Running']_vars

(* C3 as stated: a tick whose fetch failed does not invoke the pruner, the
   table after the tick equals the table before it. *)
C3_FailedTickLeavesStore ==
    [][(loopPc = "cleanup" /\ pos = None) => iss_positions' = iss_positions]_vars

(* C3 as amended: a tick whose fetch fails inserts no row but still invokes
   the pruner: the failed fetch leaves the table alone and goes to the
   pruner, and the pruner leaves exactly the rows whose observed_at is not
   earlier than now - W (or raises and leaves the table alone). *)
C3_FailedTickOnlyPrunes ==
    [][/\ (loopPc = "fetching" /\ loopPc' # "fetching" /\ pos' = None)
            => (loopPc' = "cleanup" /\ UNCHANGED storeVars)
       /\ (loopPc = "cleanup" /\ pos = None)
            => /\ nextId' = nextId
               /\ \/ /\ loopPc' = "wait"
                     /\ iss_positions' =
                          {row \in iss_positions : Epoch(row.timestamp) >= now - Window}
                  \/ iss_positions' = iss_positions]_vars

\* a tick whose fetch failed has pruned a row
C3_Witness == loopPc = "wait" /\ loopResp # None /\ pos = None /\ deleted > 0

(* C9: if the payload lacks latitude or longitude, in either shape, the
   fetch returns a failure, so no sample is built from defaults. *)
LacksCoordinates(r) ==
    /\ r.kind = "json"
    /\ r.status = 200
    /\ (r.data.latitude.t = "absent" \/ r.data.longitude.t = "absent")

C9_MissingCoordinatesFail ==
    (loopResp # None /\ LacksCoordinates(loopResp[1])) => pos = None

(* C5: once stop_event is set the loop begins no new fetch, what is in
   flight finishes (the loop leaves only through its own test of the event),
   the inter-tick wait stops waiting for its timeout, and the loop ends: by
   its test once the tick's store operations are over, or before that by a
   store operation that raises. *)
C5_CooperativeStop ==
    /\ [][/\ stop_event => ~(loopPc # "fetching" /\ loopPc' = "fetching")
          /\ (loopPc # "stopped" /\ loopPc' = "stopped") => (loopPc = "check" /\ stop_event)
          /\ (stop_event /\ loopPc = "wait" /\ loopPc' = "wait")
                => timerExpired' = timerExpired]_vars
    /\ (stop_event ~> ~Running)
    /\ ((stop_event /\ loopPc \in {"check", "wait"}) ~> loopPc = "stopped")

\* stop was signalled during a tick whose sample was stored, and the loop
\* has left through its test
C5_Witness == stop_event /\ loopPc = "stopped" /\ iss_positions # {}

(* ----- the HTTP handlers ----- *)
IsReply(ep, status) ==
    /\ httpResp # None
    /\ httpResp[1].ep = ep
    /\ httpResp[1].status = status

\* a step of a request handler: every step of background_loop moves loopPc
HandlerStep == loopPc' = loopPc /\ UNCHANGED <<now, stop_event>>

\* a step in which /api/current answers
CurrentStep ==
    /\ HandlerStep
    /\ UNCHANGED <<arPc, ar>>
    /\ httpResp' # None
    /\ httpResp'[1].ep = "current"
    /\ (httpResp' # httpResp \/ storeVars' # storeVars)

C4_Retention ==
    [][/\ (loopPc = "cleanup" /\ loopPc' = "wait") =>
            /\ \A row \in iss_positions' : Epoch(row.timestamp) >= now - Window
            /\ \A row \in iss_positions :
                  Epoch(row.timestamp) >= now - Window => row \in iss_positions'
            /\ iss_positions' \subseteq iss_positions
            /\ deleted' = Cardinality(iss_positions \ iss_positions')
       /\ (loopPc = "wait" /\ arPc = "fetch" /\ IsReply("all-records", 200)') =>
            \A i \in 1..Len(httpResp'[1].body.records) :
               LET rec == httpResp'[1].body.records[i]
               IN  rec.id < FirstId => Epoch(rec.timestamp) >= now - Window]_vars

\* the pruner has deleted rows and kept a row observed exactly at now - W,
\* and a page read afterwards shows what is left
C4_Witness ==
    /\ loopPc = "wait"
    /\ deleted > 0
    /\ \E row \in iss_positions : Epoch(row.timestamp) = now - Window
    /\ IsReply("all-records", 200)
    /\ httpResp[1].body.total = Cardinality(iss_positions)
    /\ Len(httpResp[1].body.records) = Cardinality(iss_positions)

(* ----- /api/all-records ----- *)
\* ceil(a / b) for a >= 0, b >= 1
CeilDiv(a, b) == CHOOSE q \in 0..a : q * b >= a /\ (q - 1) * b < a

\* the page and per_page a request asked for
AskedPage(args) == ArgInt(args.page, 1)
AskedPerPage(args) == ArgInt(args.per_page, PER_PAGE)

(* C6 as stated: for per_page >= 1 the response has total_pages =
   ceil(total / per_page), a page clamped into [1, total_pages] and
   min(per_page, total - (page - 1) * per_page) records. *)
C6_PaginationAsStated ==
    IsReply("all-records", 200) =>
        LET b == httpResp[1].body
        IN  b.per_page >= 1 =>
              /\ b.total_pages = CeilDiv(b.total, b.per_page)
              /\ b.page \in 1..b.total_pages
              /\ Len(b.records) = Min(b.per_page, b.total - (b.page - 1) * b.per_page)

(* C6 as amended: for per_page >= 1 an answered request reports total = the
   rows matching the day filter when they are counted, total_pages =
   ceil(total / per_page) and, when total >= 1, the asked page clamped into
   [1, total_pages]; when total = 0, total_pages is 0 and the page is the
   asked page raised to 1 at least; the records are at most per_page rows,
   min(per_page, max(0, m - (page - 1) * per_page)) of them, m being the
   rows matching when the records are read. *)
C6_Pagination ==
    [][/\ (arPc = "count" /\ arPc' = "fetch" /\ ar.per_page >= 1) =>
            /\ ar'.total_records = Cardinality(Matching(iss_positions, ar.args.day))
            /\ ar'.per_page = AskedPerPage(ar.args)
            /\ ar'.total_pages = CeilDiv(ar'.total_records, ar'.per_page)
            /\ ar'.total_records >= 1 =>
                  ar'.page = Max(1, Min(AskedPage(ar.args), ar'.total_pages))
            /\ ar'.total_records = 0 =>
                  (ar'.total_pages = 0 /\ ar'.page = Max(1, AskedPage(ar.args)))
       /\ (arPc = "fetch" /\ arPc' = "idle" /\ ar.per_page >= 1) =>
            /\ IsReply("all-records", 200)'
            /\ LET b == httpResp'[1].body
                   m == Cardinality(Matching(iss_positions, ar.args.day))
               IN  /\ b.total = ar.total_records
                   /\ b.total_pages = ar.total_pages
                   /\ b.page = ar.page
                   /\ b.per_page = ar.per_page
                   /\ Len(b.records) =
                        Min(b.per_page, Max(0, m - (b.page - 1) * b.per_page))
                   /\ \A i \in 1..Len(b.records) :
                        b.records[i] \in Matching(iss_positions, ar.args.day)]_vars

\* 13 rows, per_page = 5, page = 5: three pages, the last one is reported
\* and holds three records
C6_Witness ==
    /\ IsReply("all-records", 200)
    /\ httpResp[1].body.args.page = Num(5)
    /\ httpResp[1].body.total = 13
    /\ httpResp[1].body.per_page = 5
    /\ httpResp[1].body.total_pages = 3
    /\ httpResp[1].body.page = 3
    /\ Len(httpResp[1].body.records) = 3

(* C7: whatever per_page is asked for, the request does not fail on it, the
   per_page in effect is within 1..5000 and no more than 5000 records are
   returned. *)
C7_PerPageBounded ==
    (httpResp # None /\ httpResp[1].ep = "all-records") =>
        IF httpResp[1].status = 200
        THEN /\ httpResp[1].body.per_page \in 1..5000
             /\ Len(httpResp[1].body.records) <= 5000
        ELSE httpResp[1].body.error # "ZeroDivisionError"

(* C10: the total, the available days and the records of one response
   describe one state of the table: no record's day is missing from
   available_days, and total is not smaller than the number of records. *)
C10_OneSnapshot ==
    (IsReply("all-records", 200) /\ httpResp[1].body.per_page >= 1) =>
        LET b == httpResp[1].body
        IN  /\ \A i \in 1..Len(b.records) :
                  \E j \in 1..Len(b.available_days) :
                      b.available_days[j] = b.records[i].day
            /\ Len(b.records) <= b.total

====
